---------------------------- MODULE Spec2Model ----------------------------
(***************************************************************************)
(* Model of the Go+ tutorial server (src/main.go).                         *)
(*                                                                         *)
(* Three specifications share this module:                                 *)
(*   SpecSeg    the literate-source segmenter, parseAndRenderSegs /        *)
(*              parseSegs / checkLineType, run over bounded file contents; *)
(*   SpecIndex  the catalog builder, renderIndex, run over bounded lists   *)
(*              of directory names;                                        *)
(*   Spec       the server: the catalog goroutine started by handle() and  *)
(*              concurrent request handlers (handle's closure and          *)
(*              handleExample) sharing exampleIndexes and the descriptors' *)
(*              cache pointers.                                            *)
(*                                                                         *)
(* Strings are sequences of one-character strings, so that trimming,       *)
(* prefix tests, tab replacement, splitting and joining are computed.      *)
(***************************************************************************)
EXTENDS Integers, Sequences, FiniteSets, TLC

\* ------------------------------------------------------------------------
\* Bounds
\* ------------------------------------------------------------------------

\* Largest number of source lines of a generated file content.
MaxLines == 4

\* ------------------------------------------------------------------------
\* String library functions used by the source (package strings)
\* ------------------------------------------------------------------------

\* The white space strings.TrimSpace removes (the ASCII members).
WhiteSpace == {" ", "\t", "\n", "\r"}

RECURSIVE TrimLeft(_)
TrimLeft(s) ==
  IF s = <<>> THEN s
  ELSE IF Head(s) \in WhiteSpace THEN TrimLeft(Tail(s)) ELSE s

RECURSIVE TrimRight(_)
TrimRight(s) ==
  IF s = <<>> THEN s
  ELSE IF s[Len(s)] \in WhiteSpace THEN TrimRight(SubSeq(s, 1, Len(s) - 1))
       ELSE s

TrimSpace(s) == TrimRight(TrimLeft(s))

HasPrefix(s, p) == Len(s) >= Len(p) /\ SubSeq(s, 1, Len(p)) = p

HasSuffix(s, p) ==
  Len(s) >= Len(p) /\ SubSeq(s, Len(s) - Len(p) + 1, Len(s)) = p

TrimPrefix(s, p) == IF HasPrefix(s, p) THEN SubSeq(s, Len(p) + 1, Len(s)) ELSE s

\* strings.ReplaceAll for a non-empty old.
RECURSIVE ReplaceAll(_, _, _)
ReplaceAll(s, old, new) ==
  IF s = <<>> THEN s
  ELSE IF HasPrefix(s, old)
       THEN new \o ReplaceAll(SubSeq(s, Len(old) + 1, Len(s)), old, new)
       ELSE <<Head(s)>> \o ReplaceAll(Tail(s), old, new)

\* Index of the first occurrence of sep in s at or after position i, 0 if none.
RECURSIVE IndexFrom(_, _, _)
IndexFrom(s, sep, i) ==
  IF i + Len(sep) - 1 > Len(s) THEN 0
  ELSE IF SubSeq(s, i, i + Len(sep) - 1) = sep THEN i
       ELSE IndexFrom(s, sep, i + 1)

\* strings.Split for a non-empty sep: always at least one element.
RECURSIVE Split(_, _)
Split(s, sep) ==
  LET i == IndexFrom(s, sep, 1) IN
    IF i = 0 THEN <<s>>
    ELSE <<SubSeq(s, 1, i - 1)>> \o Split(SubSeq(s, i + Len(sep), Len(s)), sep)

\* strings.Join.
RECURSIVE Join(_, _)
Join(elems, sep) ==
  IF elems = <<>> THEN <<>>
  ELSE IF Len(elems) = 1 THEN elems[1]
       ELSE elems[1] \o sep \o Join(Tail(elems), sep)

\* ------------------------------------------------------------------------
\* Segmenter: checkLineType, parseSegs, stringJoin, parseAndRenderSegs
\* ------------------------------------------------------------------------

ltNone  == -1
ltCode  == 0
ltDoc   == 1
ltBlank == 2

NL  == <<"\n">>
TAB == <<"\t">>
FourSpaces == <<" ", " ", " ", " ">>

\* checkLineType keeping the space that follows the comment marker.
checkLineType_KeepSpace(line) ==
  LET doc == TrimSpace(line) IN
    IF HasPrefix(doc, <<"/", "/">>)
    THEN [doc |-> SubSeq(doc, 3, Len(doc)), lt |-> ltDoc]
    ELSE IF HasPrefix(doc, <<"#">>)
         THEN [doc |-> <<"#", "#">> \o doc, lt |-> ltDoc]
         ELSE IF doc = <<>>
              THEN [doc |-> doc, lt |-> ltBlank]
              ELSE [doc |-> doc, lt |-> ltCode]

\* checkLineType prepending one heading marker.
checkLineType_OneMark(line) ==
  LET doc == TrimSpace(line) IN
    IF HasPrefix(doc, <<"/", "/">>)
    THEN [doc |-> TrimPrefix(SubSeq(doc, 3, Len(doc)), <<" ">>), lt |-> ltDoc]
    ELSE IF HasPrefix(doc, <<"#">>)
         THEN [doc |-> <<"#">> \o doc, lt |-> ltDoc]
         ELSE IF doc = <<>>
              THEN [doc |-> doc, lt |-> ltBlank]
              ELSE [doc |-> doc, lt |-> ltCode]

\* func checkLineType(line string) (doc string, lt int)
checkLineType(line) ==
  LET doc == TrimSpace(line) IN
    IF HasPrefix(doc, <<"/", "/">>)
    THEN [doc |-> TrimPrefix(SubSeq(doc, 3, Len(doc)), <<" ">>), lt |-> ltDoc]
    ELSE IF HasPrefix(doc, <<"#">>)
         THEN [doc |-> <<"#", "#">> \o doc, lt |-> ltDoc]
         ELSE IF doc = <<>>
              THEN [doc |-> doc, lt |-> ltBlank]
              ELSE [doc |-> doc, lt |-> ltCode]

\* The Seg struct.  Docs and Code are nil (<<>>) until a line is appended.
\* DocsAt and CodeAt are history fields: the index in `lines` of the source
\* line each entry of Docs and Code was appended from.
NewSeg ==
  [Docs |-> <<>>, Code |-> <<>>, DocsRendered |-> <<>>, CodeRendered |-> <<>>,
   CodeForJs |-> <<>>, DocsAt |-> <<>>, CodeAt |-> <<>>]

\* The first test without its blank-after-doc case.
IsDocStep_DocOnly(lt, seen) == lt = ltDoc

\* The test of the first branch of the loop of parseSegs.
IsDocStep(lt, seen) == lt = ltDoc \/ (lt = ltBlank /\ seen = ltDoc)

\* The second test without its after-code case.
IsCodeStep_CodeOnly(lt, seen) == lt = ltCode

\* The test of the second branch of the loop of parseSegs.
IsCodeStep(lt, seen) == lt = ltCode \/ seen = ltCode

\* The first branch joining any open segment, as the second branch does.
DocStep_JoinOpen(sg, last, seen, trimmed, i) ==
  IF last # 0
  THEN [segs |-> [sg EXCEPT ![last].Docs = Append(@, trimmed),
                            ![last].DocsAt = Append(@, i)],
        lastSeg |-> last]
  ELSE [segs |-> Append(sg, [NewSeg EXCEPT !.Docs = <<trimmed>>,
                                           !.DocsAt = <<i>>]),
        lastSeg |-> Len(sg) + 1]

\* First branch: the trimmed text joins the open doc run, or opens a segment.
\* sg is the segment list, last the index of lastSeg in it (0 for nil).
DocStep(sg, last, seen, trimmed, i) ==
  IF seen = ltDoc
  THEN [segs |-> [sg EXCEPT ![last].Docs = Append(@, trimmed),
                            ![last].DocsAt = Append(@, i)],
        lastSeg |-> last]
  ELSE [segs |-> Append(sg, [NewSeg EXCEPT !.Docs = <<trimmed>>,
                                           !.DocsAt = <<i>>]),
        lastSeg |-> Len(sg) + 1]

\* The second branch appending the trimmed text instead of the line.
CodeStep_Trimmed(sg, last, line, i) ==
  IF last # 0
  THEN [segs |-> [sg EXCEPT ![last].Code = Append(@, TrimSpace(line)),
                            ![last].CodeAt = Append(@, i)],
        lastSeg |-> last]
  ELSE [segs |-> Append(sg, [NewSeg EXCEPT !.Code = <<TrimSpace(line)>>,
                                           !.CodeAt = <<i>>]),
        lastSeg |-> Len(sg) + 1]

\* The second branch assigning the line to Code instead of appending it.
CodeStep_Overwrite(sg, last, line, i) ==
  IF last # 0
  THEN [segs |-> [sg EXCEPT ![last].Code = <<line>>,
                            ![last].CodeAt = <<i>>],
        lastSeg |-> last]
  ELSE [segs |-> Append(sg, [NewSeg EXCEPT !.Code = <<line>>,
                                           !.CodeAt = <<i>>]),
        lastSeg |-> Len(sg) + 1]

\* Second branch: the line joins the code of lastSeg, or opens a segment.
CodeStep(sg, last, line, i) ==
  IF last # 0
  THEN [segs |-> [sg EXCEPT ![last].Code = Append(@, line),
                            ![last].CodeAt = Append(@, i)],
        lastSeg |-> last]
  ELSE [segs |-> Append(sg, [NewSeg EXCEPT !.Code = <<line>>,
                                           !.CodeAt = <<i>>]),
        lastSeg |-> Len(sg) + 1]

\* func stringJoin(elems []string, sep string) []byte
stringJoin(elems, sep) ==
  IF Len(elems) = 0 THEN <<>>
  ELSE IF Len(elems) = 1 THEN elems[1]
       ELSE LET RECURSIVE rest(_)
                rest(k) == IF k > Len(elems) THEN <<>>
                           ELSE sep \o elems[k] \o rest(k + 1)
            IN elems[1] \o rest(2)

\* The external renderers, as uninterpreted functions of their arguments.
markdown(docs) == <<"html", stringJoin(docs, NL)>>

\* chromaFormat: a .gop path is highlighted with the lexer of main.go.
chromaFormat(code, filePath) ==
  LET p == IF HasSuffix(filePath, <<".", "g", "o", "p">>)
           THEN <<"m", "a", "i", "n", ".", "g", "o">> ELSE filePath
  IN <<"chroma", p, code>>

goFileSuffixes == << <<".", "g", "o", "p">>, <<".", "g", "o">> >>

\* isGopFile taking every file for a Go+ file.
isGopFile_Any(sourcePath) == TRUE

\* func isGopFile(sourcePath string) bool
isGopFile(sourcePath) ==
  \E k \in 1..Len(goFileSuffixes) : HasSuffix(sourcePath, goFileSuffixes[k])

\* The rendering loop of parseAndRenderSegs over one segment.
RenderSeg(seg, path) ==
  LET withDocs == IF seg.Docs # <<>>
                  THEN [seg EXCEPT !.DocsRendered = markdown(seg.Docs)]
                  ELSE seg
      js == Join(seg.Code, NL)
  IN IF seg.Code # <<>>
     THEN [withDocs EXCEPT !.CodeForJs = js,
                           !.CodeRendered = chromaFormat(js, path)]
     ELSE withDocs

\* The tab replacement loop of parseSegs.
replaceTabs(src) == [i \in 1..Len(src) |-> ReplaceAll(src[i], TAB, FourSpaces)]

\* The loop of parseSegs from line i on, as a function.
RECURSIVE parseLoop(_, _, _, _, _)
parseLoop(ls, i, sg, last, seen) ==
  IF i > Len(ls) THEN sg
  ELSE LET c == checkLineType(ls[i]) IN
         IF IsDocStep(c.lt, seen)
         THEN LET r == DocStep(sg, last, seen, c.doc, i)
              IN parseLoop(ls, i + 1, r.segs, r.lastSeg, ltDoc)
         ELSE IF IsCodeStep(c.lt, seen)
              THEN LET r == CodeStep(sg, last, ls[i], i)
                   IN parseLoop(ls, i + 1, r.segs, r.lastSeg, ltCode)
              ELSE parseLoop(ls, i + 1, sg, last, seen)

\* func parseSegs(filecontent string) (segs []*Seg)
parseSegs(content) ==
  parseLoop(replaceTabs(Split(content, NL)), 1, <<>>, 0, ltNone)

\* func parseAndRenderSegs(sourcePath string) ([]*Seg, string), given the
\* content mustReadFile returns for the path.
parseAndRenderSegs(path, content) ==
  LET sg == parseSegs(content) IN
    [Segs |-> [k \in 1..Len(sg) |-> RenderSeg(sg[k], path)],
     GoCode |-> IF ~isGopFile(path) THEN <<>> ELSE content]

\* ------------------------------------------------------------------------
\* Catalog: listTutorial, renderIndex
\* ------------------------------------------------------------------------

Digits == {"0", "1", "2", "3", "4", "5", "6", "7", "8", "9"}

Upper ==
  <<"A", "B", "C", "D", "E", "F", "G", "H", "I", "J", "K", "L", "M",
    "N", "O", "P", "Q", "R", "S", "T", "U", "V", "W", "X", "Y", "Z">>

Lower ==
  <<"a", "b", "c", "d", "e", "f", "g", "h", "i", "j", "k", "l", "m",
    "n", "o", "p", "q", "r", "s", "t", "u", "v", "w", "x", "y", "z">>

\* strings.ToLower.
ToLower(s) ==
  [i \in 1..Len(s) |->
     IF \E k \in 1..26 : Upper[k] = s[i]
     THEN Lower[CHOOSE k \in 1..26 : Upper[k] = s[i]]
     ELSE s[i]]

\* strconv.Atoi returns no error: an optional sign, then one or more digits.
AtoiOk(s) ==
  LET body == IF s # <<>> /\ s[1] \in {"+", "-"} THEN Tail(s) ELSE s
  IN body # <<>> /\ \A k \in 1..Len(body) : body[k] \in Digits

\* The test listTutorial makes of one directory entry.
IsTutorialDir(fi) ==
  /\ fi.isDir
  /\ Len(fi.name) > 3
  /\ fi.name[3] = "-"
  /\ AtoiOk(SubSeq(fi.name, 1, 2))

\* func listTutorial(dir string) (names []string, err error), given the
\* entries ioutil.ReadDir returns.
listTutorial(entries) ==
  LET kept == SelectSeq(entries, IsTutorialDir)
  IN [k \in 1..Len(kept) |-> kept[k].name]

\* The descriptor with the title's case kept in its path.
NewIndex_KeepCase(name) ==
  LET title == SubSeq(name, 4, Len(name)) IN
    [Path |-> <<"/">> \o title,
     Name |-> name,
     Title |-> ReplaceAll(title, <<"-">>, <<" ">>),
     Prev |-> 0, Next |-> 0, cache |-> 0]

\* The exampleIndex renderIndex makes for a name; pointers are indexes in
\* descs, 0 is nil.
NewIndex(name) ==
  LET title == SubSeq(name, 4, Len(name)) IN
    [Path |-> <<"/">> \o ToLower(title),
     Name |-> name,
     Title |-> ReplaceAll(title, <<"-">>, <<" ">>),
     Prev |-> 0, Next |-> 0, cache |-> 0]

\* The linking without the assignment to prev.Next.
LinkIndex_NoNext(ds, pv, idx) == Append(ds, [idx EXCEPT !.Prev = pv])

\* The linking of the loop body of renderIndex: the new descriptor idx is
\* allocated at Len(ds) + 1, prev.Next and idx.Prev are set.
LinkIndex(ds, pv, idx) ==
  LET linked == IF pv # 0 THEN [ds EXCEPT ![pv].Next = Len(ds) + 1] ELSE ds
  IN Append(linked, [idx EXCEPT !.Prev = pv])

\* What the templates see of a descriptor.
IndexFields(d) ==
  [Path |-> d.Path, Name |-> d.Name, Title |-> d.Title,
   Prev |-> d.Prev, Next |-> d.Next]

\* indexTmpl.Execute(&buf, examples), uninterpreted.
ExecuteIndexTmpl(ds, exs) ==
  <<"index.tmpl", [k \in 1..Len(exs) |-> IndexFields(ds[exs[k]])]>>

\* ------------------------------------------------------------------------
\* Pages: parseExample, renderExample, the routing of handle
\* ------------------------------------------------------------------------

\* filepath.Join(dir, name) for non-empty clean arguments.
JoinPath(dir, name) == dir \o <<"/">> \o name

\* The loop test of parseExample skipping the last file.
MoreFiles_OffByOne(i, fis) == i < Len(fis)

\* The loop test of parseExample: file i of the listing is still to parse.
MoreFiles(i, fis) == i <= Len(fis)

\* The body of the loop of parseExample for the file fi of directory dir.
ParseExampleFile(dir, fi) ==
  LET r == parseAndRenderSegs(JoinPath(dir, fi.name), fi.content)
  IN [Segs |-> r.Segs, GoCode |-> r.GoCode]

\* func renderExample(e *example) []byte: exampleTmpl.Execute, uninterpreted.
renderExample(idx, files) ==
  <<"example.tmpl", [Index |-> IndexFields(idx), Files |-> files]>>

\* path.IsAbs.
IsAbs(urlPath) == Len(urlPath) > 0 /\ urlPath[1] = "/"

\* path.Ext: the suffix from the last dot of the last element, or empty.
RECURSIVE ExtFrom(_, _)
ExtFrom(urlPath, i) ==
  IF i < 1 \/ urlPath[i] = "/" THEN <<>>
  ELSE IF urlPath[i] = "." THEN SubSeq(urlPath, i, Len(urlPath))
       ELSE ExtFrom(urlPath, i - 1)

Ext(urlPath) == ExtFrom(urlPath, Len(urlPath))

\* The file http.ServeFile is given.
PublicFile(name) == <<"file", <<".", "/", "p", "u", "b", "l", "i", "c">> \o name>>

NotFoundPage == PublicFile(<<"/", "4", "0", "4", ".", "h", "t", "m", "l">>)

\* ------------------------------------------------------------------------
\* State
\* ------------------------------------------------------------------------

VARIABLES
  \* parseAndRenderSegs / parseSegs
  sourcePath,    \* the path of the file being parsed
  filecontent,   \* what mustReadFile returned
  source,        \* strings.Split(filecontent, "\n")
  lines,         \* source with tabs replaced
  pos,           \* index in lines of the next iteration of the loop
  segs,          \* the segments appended so far
  lastSeg,       \* index in segs of lastSeg, 0 for nil
  lastSeen,      \* lastSeen
  goCode,        \* the second result of parseAndRenderSegs
  segPc          \* "split", "loop", "render", "done"; "off" when not running

segVars ==
  <<sourcePath, filecontent, source, lines, pos, segs, lastSeg, lastSeen,
    goCode, segPc>>

VARIABLES
  \* the file system
  dirEntries,      \* the entries of the root directory, in listing order
  \* the goroutine of handle: listTutorial, renderIndex
  tutorial,        \* names, the result of listTutorial
  bi,              \* index of the next name of the loop of renderIndex
  examples,        \* examples, pointers to descriptors (0 is nil)
  indexes,         \* indexes, the map from Path to descriptor
  prev,            \* prev
  bPc,             \* "list", "parse", "loop", "execute", "wgdone", "done",
                   \* "panic"
  \* shared
  descs,           \* the heap of exampleIndex values
  exampleIndexes,  \* the global map; the empty map stands for nil
  text,            \* the index page
  wg,              \* the counter of the WaitGroup
  caches           \* the heap of exampleCache values: caches[h] is the
                   \* value request h allocated, <<>> before it does; the
                   \* pointer to it is h, the nil pointer is 0

idxVars == <<dirEntries, tutorial, bi, examples, indexes, prev, bPc>>

sharedVars == <<descs, exampleIndexes, text, wg, caches>>

VARIABLES
  \* the request handlers: the closure of handle, handleExample
  hPc,     \* "idle", "wait", "load", "files", "store", "done", "panicked"
  hPath,   \* urlPath, after path.Clean
  hIdx,    \* idx, a pointer to a descriptor
  hCache,  \* cache, a pointer to an exampleCache (0 is nil)
  hFis,    \* fis, the listing of the example's directory
  hFi,     \* index of the next file of the loop of parseExample
  hFiles,  \* example.Files
  resp     \* what the handler wrote to its ResponseWriter, <<>> if nothing

reqVars == <<hPc, hPath, hIdx, hCache, hFis, hFi, hFiles, resp>>

vars == <<segVars, idxVars, sharedVars, reqVars>>

\* ------------------------------------------------------------------------
\* Inputs
\* ------------------------------------------------------------------------

\* Largest number of entries of a generated root directory.
MaxEntries == 3

\* Number of requests the server handles.
NumRequests == 3

Requests == 1..NumRequests

Str_01_Ab == <<"0", "1", "-", "A", "b">>
Str_02_C  == <<"0", "2", "-", "C">>
Str_05_Channels == <<"0", "5", "-", "C", "h", "a", "n", "n", "e", "l", "s">>

\* Entries of a root directory: tutorial directories (two of them with the
\* same lower-case title, one with a separator in its title, the one of the
\* documented example), a directory
\* with a signed ordinal, directories that do not follow the convention, and
\* a plain file.
EntrySamples ==
  { [name |-> Str_01_Ab, isDir |-> TRUE],
    [name |-> Str_02_C, isDir |-> TRUE],
    [name |-> <<"0", "3", "-", "c">>, isDir |-> TRUE],
    [name |-> <<"+", "4", "-", "d", "-", "E">>, isDir |-> TRUE],
    [name |-> Str_05_Channels, isDir |-> TRUE],
    [name |-> <<"x", "5", "-", "F">>, isDir |-> TRUE],
    [name |-> <<"0", "6", "-">>, isDir |-> TRUE],
    [name |-> <<"0", "7", "-", "G">>, isDir |-> FALSE],
    [name |-> <<"0", "8", "-", "H", "-", "i">>, isDir |-> TRUE] }

\* The characters of the sampled names, in the order of their bytes.
ByteOrder ==
  <<"+", "-", ".", "0", "1", "2", "3", "4", "5", "6", "7", "8", "9">>
    \o Upper \o Lower

ByteOf(c) == CHOOSE k \in 1..Len(ByteOrder) : ByteOrder[k] = c

\* a < b as Go compares strings: byte by byte, a proper prefix first.
RECURSIVE StrLess(_, _)
StrLess(a, b) ==
  IF b = <<>> THEN FALSE
  ELSE IF a = <<>> THEN TRUE
       ELSE IF Head(a) = Head(b) THEN StrLess(Tail(a), Tail(b))
            ELSE ByteOf(Head(a)) < ByteOf(Head(b))

\* ioutil.ReadDir returns the entries of a directory sorted by file name;
\* the names of one directory are distinct.
SortedByName(entries) ==
  \A i \in 1..Len(entries) : \A j \in 1..Len(entries) :
    i < j => StrLess(entries[i].name, entries[j].name)

\* The root directory the server runs on.
ServerRoot ==
  << [name |-> Str_01_Ab, isDir |-> TRUE],
     [name |-> Str_02_C, isDir |-> TRUE],
     [name |-> <<"m", "a", "i", "n", ".", "g", "o">>, isDir |-> FALSE] >>

\* The files of the example directories, in listing order.
DirFiles(name) ==
  IF name = Str_01_Ab
  THEN << [name |-> <<"a", ".", "g", "o", "p">>,
           content |-> <<"/", "/", "d">>],
          [name |-> <<"b", ".", "s", "h">>,
           content |-> <<"\t", "y">>] >>
  ELSE IF name = Str_02_C
       THEN << [name |-> <<"c", ".", "g", "o">>, content |-> <<"x">>] >>
       ELSE <<>>

\* Cleaned URL paths of requests: the index, the two examples, an unknown
\* example, a static asset, and a path that is not absolute.
UrlSamples ==
  { <<"/">>,
    <<"/", "a", "b">>,
    <<"/", "c">>,
    <<"/", "z">>,
    <<"/", "s", ".", "c", "s", "s">>,
    <<".">> }

EmptyMap == <<>>

CatalogIdle ==
  /\ dirEntries = <<>> /\ tutorial = <<>> /\ bi = 0 /\ examples = <<>>
  /\ indexes = EmptyMap /\ prev = 0 /\ bPc = "off"
  /\ descs = <<>> /\ exampleIndexes = EmptyMap /\ text = <<>> /\ wg = 0
  /\ caches = [h \in Requests |-> <<>>]

\* handle() has called wg.Add(1) and started the goroutine.
CatalogInit(entries) ==
  /\ dirEntries = entries /\ tutorial = <<>> /\ bi = 0 /\ examples = <<>>
  /\ indexes = EmptyMap /\ prev = 0 /\ bPc = "list"
  /\ descs = <<>> /\ exampleIndexes = EmptyMap /\ text = <<>> /\ wg = 1
  /\ caches = [h \in Requests |-> <<>>]

HandlersIdle ==
  /\ hPc = [h \in Requests |-> "idle"]
  /\ hPath = [h \in Requests |-> <<>>]
  /\ hIdx = [h \in Requests |-> 0]
  /\ hCache = [h \in Requests |-> 0]
  /\ hFis = [h \in Requests |-> <<>>]
  /\ hFi = [h \in Requests |-> 0]
  /\ hFiles = [h \in Requests |-> <<>>]
  /\ resp = [h \in Requests |-> <<>>]

\* Raw source lines: empty, blank with white space, doc comments, an
\* indented heading, code, and code indented by a tab with a trailing space.
LineSamples ==
  { <<>>,
    <<" ">>,
    <<"/", "/", " ", "d">>,
    <<" ", "/", "/", "e">>,
    <<" ", "#", " ", "h">>,
    <<"x">>,
    <<"\t", "y", " ">> }

\* The eight lines of the example scenario of the documentation.
ExampleLines ==
  << <<"/", "/", " ", "T", "i", "t", "l", "e">>,
     <<>>,
     <<"/", "/", " ", "m", "o", "r", "e">>,
     <<"x", " ", ":", "=", " ", "1">>,
     <<>>,
     <<"y", " ", ":", "=", " ", "2">>,
     <<"/", "/", " ", "n", "e", "x", "t", " ", "d", "o", "c">>,
     <<"z", " ", ":", "=", " ", "3">> >>

PathSamples ==
  { <<"s", ".", "g", "o", "p">>, <<"s", ".", "g", "o">>, <<"s", ".", "s", "h">> }

RECURSIVE SeqsUpTo(_, _)
SeqsUpTo(S, n) ==
  IF n = 0 THEN {<<>>}
  ELSE LET shorter == SeqsUpTo(S, n - 1)
       IN shorter \cup {Append(q, x) : q \in {r \in shorter : Len(r) = n - 1},
                                        x \in S}

\* The listings ioutil.ReadDir can return for a root directory.
RootListings ==
  {entries \in SeqsUpTo(EntrySamples, MaxEntries) : SortedByName(entries)}

FileContents ==
  {Join(ls, NL) : ls \in SeqsUpTo(LineSamples, MaxLines) \ {<<>>}}
    \cup {Join(ExampleLines, NL)}

\* ------------------------------------------------------------------------
\* The segmenter as a state machine
\* ------------------------------------------------------------------------

SegIdle ==
  /\ sourcePath = <<>> /\ filecontent = <<>> /\ source = <<>> /\ lines = <<>>
  /\ pos = 0 /\ segs = <<>> /\ lastSeg = 0 /\ lastSeen = ltNone
  /\ goCode = <<>> /\ segPc = "off"

\* parseAndRenderSegs has read the file; parseSegs is about to run.
SegInit ==
  /\ sourcePath \in PathSamples
  /\ filecontent \in FileContents
  /\ source = <<>> /\ lines = <<>>
  /\ pos = 0 /\ segs = <<>> /\ lastSeg = 0 /\ lastSeen = ltNone
  /\ goCode = <<>> /\ segPc = "split"
  /\ CatalogIdle /\ HandlersIdle

\* parseSegs up to the loop: split on newline, replace tabs.
SplitSource ==
  /\ segPc = "split"
  /\ source' = Split(filecontent, NL)
  /\ lines' = replaceTabs(source')
  /\ pos' = 1 /\ segs' = <<>> /\ lastSeg' = 0 /\ lastSeen' = ltNone
  /\ segPc' = "loop"
  /\ UNCHANGED <<sourcePath, filecontent, goCode>>
  /\ UNCHANGED <<idxVars, sharedVars, reqVars>>

\* One iteration of the loop, first branch.
ParseDoc ==
  /\ segPc = "loop" /\ pos <= Len(lines)
  /\ LET c == checkLineType(lines[pos]) IN
       /\ IsDocStep(c.lt, lastSeen)
       /\ LET r == DocStep(segs, lastSeg, lastSeen, c.doc, pos) IN
            /\ segs' = r.segs
            /\ lastSeg' = r.lastSeg
       /\ lastSeen' = ltDoc
  /\ pos' = pos + 1
  /\ UNCHANGED <<sourcePath, filecontent, source, lines, goCode, segPc>>
  /\ UNCHANGED <<idxVars, sharedVars, reqVars>>

\* One iteration of the loop, second branch.
ParseCode ==
  /\ segPc = "loop" /\ pos <= Len(lines)
  /\ LET c == checkLineType(lines[pos]) IN
       /\ ~IsDocStep(c.lt, lastSeen)
       /\ IsCodeStep(c.lt, lastSeen)
       /\ LET r == CodeStep(segs, lastSeg, lines[pos], pos) IN
            /\ segs' = r.segs
            /\ lastSeg' = r.lastSeg
       /\ lastSeen' = ltCode
  /\ pos' = pos + 1
  /\ UNCHANGED <<sourcePath, filecontent, source, lines, goCode, segPc>>
  /\ UNCHANGED <<idxVars, sharedVars, reqVars>>

\* One iteration of the loop, neither branch: the line is dropped.
ParseSkip ==
  /\ segPc = "loop" /\ pos <= Len(lines)
  /\ LET c == checkLineType(lines[pos]) IN
       /\ ~IsDocStep(c.lt, lastSeen)
       /\ ~IsCodeStep(c.lt, lastSeen)
  /\ pos' = pos + 1
  /\ UNCHANGED <<sourcePath, filecontent, source, lines, segs, lastSeg,
                 lastSeen, goCode, segPc>>
  /\ UNCHANGED <<idxVars, sharedVars, reqVars>>

\* The loop of parseSegs is over; parseSegs returns segs.
ParseReturn ==
  /\ segPc = "loop" /\ pos > Len(lines)
  /\ segPc' = "render"
  /\ UNCHANGED <<sourcePath, filecontent, source, lines, pos, segs, lastSeg,
                 lastSeen, goCode>>
  /\ UNCHANGED <<idxVars, sharedVars, reqVars>>

\* The rest of parseAndRenderSegs: render every segment, keep the file
\* content only for a Go+ or Go file.
RenderSegs ==
  /\ segPc = "render"
  /\ segs' = [k \in 1..Len(segs) |-> RenderSeg(segs[k], sourcePath)]
  /\ goCode' = IF ~isGopFile(sourcePath) THEN <<>> ELSE filecontent
  /\ segPc' = "done"
  /\ UNCHANGED <<sourcePath, filecontent, source, lines, pos, lastSeg, lastSeen>>
  /\ UNCHANGED <<idxVars, sharedVars, reqVars>>

SegNext ==
  \/ SplitSource
  \/ ParseDoc
  \/ ParseCode
  \/ ParseSkip
  \/ ParseReturn
  \/ RenderSegs

SpecSeg == SegInit /\ [][SegNext]_vars

\* ------------------------------------------------------------------------
\* The catalog goroutine of handle
\* ------------------------------------------------------------------------

\* names, err := listTutorial(root), without error.
ListTutorial ==
  /\ bPc = "list"
  /\ tutorial' = listTutorial(dirEntries)
  /\ bPc' = "parse"
  /\ UNCHANGED <<dirEntries, bi, examples, indexes, prev>>
  /\ UNCHANGED <<segVars, sharedVars, reqVars>>

\* renderIndex up to its loop: the templates parse, examples and indexes
\* are made.
RenderIndexStart ==
  /\ bPc = "parse"
  /\ examples' = [i \in 1..Len(tutorial) |-> 0]
  /\ indexes' = EmptyMap
  /\ prev' = 0
  /\ bi' = 1
  /\ bPc' = "loop"
  /\ UNCHANGED <<dirEntries, tutorial>>
  /\ UNCHANGED <<segVars, sharedVars, reqVars>>

\* One iteration of the loop of renderIndex.
RenderIndexLoop ==
  /\ bPc = "loop" /\ bi <= Len(tutorial)
  /\ LET idx == NewIndex(tutorial[bi])
         ptr == Len(descs) + 1
     IN /\ descs' = LinkIndex(descs, prev, idx)
        /\ examples' = [examples EXCEPT ![bi] = ptr]
        /\ indexes' = (idx.Path :> ptr) @@ indexes
        /\ prev' = ptr
  /\ bi' = bi + 1
  /\ UNCHANGED <<dirEntries, tutorial, bPc>>
  /\ UNCHANGED <<exampleIndexes, text, wg, caches>>
  /\ UNCHANGED <<segVars, reqVars>>

\* exampleIndexes = indexes
PublishIndexes ==
  /\ bPc = "loop" /\ bi > Len(tutorial)
  /\ exampleIndexes' = indexes
  /\ bPc' = "execute"
  /\ UNCHANGED <<dirEntries, tutorial, bi, examples, indexes, prev>>
  /\ UNCHANGED <<descs, text, wg, caches>>
  /\ UNCHANGED <<segVars, reqVars>>

\* The index template executes; the goroutine assigns text.
ExecuteIndex ==
  /\ bPc = "execute"
  /\ text' = ExecuteIndexTmpl(descs, examples)
  /\ bPc' = "wgdone"
  /\ UNCHANGED <<dirEntries, tutorial, bi, examples, indexes, prev>>
  /\ UNCHANGED <<descs, exampleIndexes, wg, caches>>
  /\ UNCHANGED <<segVars, reqVars>>

\* wg.Done()
WgDone ==
  /\ bPc = "wgdone"
  /\ wg' = wg - 1
  /\ bPc' = "done"
  /\ UNCHANGED <<dirEntries, tutorial, bi, examples, indexes, prev>>
  /\ UNCHANGED <<descs, exampleIndexes, text, caches>>
  /\ UNCHANGED <<segVars, reqVars>>

\* The root directory or a template cannot be read, or a template fails:
\* log.Panicln or check panics in the goroutine and the process ends.
CatalogPanic ==
  /\ bPc \in {"list", "parse", "execute"}
  /\ bPc' = "panic"
  /\ UNCHANGED <<dirEntries, tutorial, bi, examples, indexes, prev>>
  /\ UNCHANGED <<segVars, sharedVars, reqVars>>

CatalogNext ==
  \/ ListTutorial
  \/ RenderIndexStart
  \/ RenderIndexLoop
  \/ PublishIndexes
  \/ ExecuteIndex
  \/ WgDone
  \/ CatalogPanic

IndexInit ==
  /\ SegIdle /\ HandlersIdle
  /\ \E entries \in RootListings : CatalogInit(entries)

SpecIndex == IndexInit /\ [][CatalogNext]_vars

\* ------------------------------------------------------------------------
\* The request handlers: the closure handle returns, handleExample
\* ------------------------------------------------------------------------

\* The process is alive: the catalog goroutine has not panicked.
Running == bPc # "panic"

\* The closure for the path "/": the handler reaches wg.Wait().
StartIndex(h) ==
  /\ Running /\ hPc[h] = "idle"
  /\ hPath' = [hPath EXCEPT ![h] = <<"/">>]
  /\ hPc' = [hPc EXCEPT ![h] = "wait"]
  /\ UNCHANGED <<hIdx, hCache, hFis, hFi, hFiles, resp>>
  /\ UNCHANGED <<segVars, idxVars, sharedVars>>

\* The closure writing text without waiting for the goroutine.
ServeIndex_NoWait(h) ==
  /\ Running /\ hPc[h] = "wait"
  /\ resp' = [resp EXCEPT ![h] = <<"bytes", text>>]
  /\ hPc' = [hPc EXCEPT ![h] = "done"]
  /\ UNCHANGED <<hPath, hIdx, hCache, hFis, hFi, hFiles>>
  /\ UNCHANGED <<segVars, idxVars, sharedVars>>

\* wg.Wait() returns and the handler writes text.
ServeIndex(h) ==
  /\ Running /\ hPc[h] = "wait"
  /\ wg = 0
  /\ resp' = [resp EXCEPT ![h] = <<"bytes", text>>]
  /\ hPc' = [hPc EXCEPT ![h] = "done"]
  /\ UNCHANGED <<hPath, hIdx, hCache, hFis, hFi, hFiles>>
  /\ UNCHANGED <<segVars, idxVars, sharedVars>>

\* The closure for a path that is not absolute or has an extension:
\* http.ServeFile of the file under ./public.
ServeStatic(h) ==
  /\ Running /\ hPc[h] = "idle"
  /\ \E p \in UrlSamples :
       LET urlPath == IF ~IsAbs(p) THEN <<"/", "4", "0", "4", ".", "h", "t", "m", "l">>
                      ELSE p
       IN /\ urlPath # <<"/">>
          /\ Ext(urlPath) # <<>>
          /\ hPath' = [hPath EXCEPT ![h] = urlPath]
          /\ resp' = [resp EXCEPT ![h] = PublicFile(urlPath)]
  /\ hPc' = [hPc EXCEPT ![h] = "done"]
  /\ UNCHANGED <<hIdx, hCache, hFis, hFi, hFiles>>
  /\ UNCHANGED <<segVars, idxVars, sharedVars>>

\* The values a handler can read from exampleIndexes.  The read is not
\* ordered with the goroutine's assignment: until wg.Done() the handler sees
\* the assigned map or still nil.
VisibleIndexes ==
  IF bPc \in {"execute", "wgdone"} THEN {EmptyMap, exampleIndexes}
  ELSE {exampleIndexes}

\* The paths the closure hands to handleExample.
ExamplePaths == {p \in UrlSamples : IsAbs(p) /\ p # <<"/">> /\ Ext(p) = <<>>}

\* The closure for any other path calls handleExample, and
\* idx, ok := exampleIndexes[path] gives ok true.
LookupHit(h) ==
  /\ Running /\ hPc[h] = "idle"
  /\ \E p \in ExamplePaths, m \in VisibleIndexes :
       /\ p \in DOMAIN m
       /\ hPath' = [hPath EXCEPT ![h] = p]
       /\ hIdx' = [hIdx EXCEPT ![h] = m[p]]
  /\ hPc' = [hPc EXCEPT ![h] = "load"]
  /\ UNCHANGED <<hCache, hFis, hFi, hFiles, resp>>
  /\ UNCHANGED <<segVars, idxVars, sharedVars>>

\* The closure for any other path calls handleExample, and
\* idx, ok := exampleIndexes[path] gives ok false: the 404 page is served.
LookupMiss(h) ==
  /\ Running /\ hPc[h] = "idle"
  /\ \E p \in ExamplePaths, m \in VisibleIndexes :
       /\ p \notin DOMAIN m
       /\ hPath' = [hPath EXCEPT ![h] = p]
  /\ resp' = [resp EXCEPT ![h] = NotFoundPage]
  /\ hPc' = [hPc EXCEPT ![h] = "done"]
  /\ UNCHANGED <<hIdx, hCache, hFis, hFi, hFiles>>
  /\ UNCHANGED <<segVars, idxVars, sharedVars>>

\* The locals of handleExample end with the call.
LocalsEnd(h) ==
  /\ hCache' = [hCache EXCEPT ![h] = 0]
  /\ hFis' = [hFis EXCEPT ![h] = <<>>]
  /\ hFi' = [hFi EXCEPT ![h] = 0]
  /\ hFiles' = [hFiles EXCEPT ![h] = <<>>]

\* The handler calling buildExampleCache whatever the load gave.
LoadCacheNil_Always(h) ==
  /\ Running /\ hPc[h] = "load"
  /\ hCache' = [hCache EXCEPT ![h] = 0]
  /\ hFis' = [hFis EXCEPT ![h] = DirFiles(descs[hIdx[h]].Name)]
  /\ hFi' = [hFi EXCEPT ![h] = 1]
  /\ hFiles' = [hFiles EXCEPT ![h] = <<>>]
  /\ hPc' = [hPc EXCEPT ![h] = "files"]
  /\ UNCHANGED <<hPath, hIdx, resp>>
  /\ UNCHANGED <<segVars, idxVars, sharedVars>>

\* cache := atomic.LoadPointer(&idx.cache) gives nil: the handler calls
\* buildExampleCache, and parseExample lists the directory without error.
LoadCacheNil(h) ==
  /\ Running /\ hPc[h] = "load"
  /\ descs[hIdx[h]].cache = 0
  /\ hCache' = [hCache EXCEPT ![h] = 0]
  /\ hFis' = [hFis EXCEPT ![h] = DirFiles(descs[hIdx[h]].Name)]
  /\ hFi' = [hFi EXCEPT ![h] = 1]
  /\ hFiles' = [hFiles EXCEPT ![h] = <<>>]
  /\ hPc' = [hPc EXCEPT ![h] = "files"]
  /\ UNCHANGED <<hPath, hIdx, resp>>
  /\ UNCHANGED <<segVars, idxVars, sharedVars>>

\* cache := atomic.LoadPointer(&idx.cache) gives a page: the handler writes
\* its data and returns.
LoadCacheBuilt(h) ==
  /\ Running /\ hPc[h] = "load"
  /\ descs[hIdx[h]].cache # 0
  /\ resp' = [resp EXCEPT ![h] = <<"bytes", caches[descs[hIdx[h]].cache].data>>]
  /\ hPc' = [hPc EXCEPT ![h] = "done"]
  /\ LocalsEnd(h)
  /\ UNCHANGED <<hPath, hIdx>>
  /\ UNCHANGED <<segVars, idxVars, sharedVars>>

\* One iteration of the loop of parseExample, without error.
ParseFile(h) ==
  /\ Running /\ hPc[h] = "files"
  /\ MoreFiles(hFi[h], hFis[h])
  /\ hFiles' = [hFiles EXCEPT ![h] =
                  Append(@, ParseExampleFile(descs[hIdx[h]].Name, hFis[h][hFi[h]]))]
  /\ hFi' = [hFi EXCEPT ![h] = @ + 1]
  /\ UNCHANGED <<hPc, hPath, hIdx, hCache, hFis, resp>>
  /\ UNCHANGED <<segVars, idxVars, sharedVars>>

\* parseExample returns, renderExample executes the template without
\* error, and buildExampleCache allocates the exampleCache holding the data.
RenderExample(h) ==
  /\ Running /\ hPc[h] = "files"
  /\ ~MoreFiles(hFi[h], hFis[h])
  /\ caches' = [caches EXCEPT ![h] =
                  [data |-> renderExample(descs[hIdx[h]], hFiles[h])]]
  /\ hCache' = [hCache EXCEPT ![h] = h]
  /\ hPc' = [hPc EXCEPT ![h] = "store"]
  /\ UNCHANGED <<hPath, hIdx, hFis, hFi, hFiles, resp>>
  /\ UNCHANGED <<descs, exampleIndexes, text, wg>>
  /\ UNCHANGED <<segVars, idxVars>>

\* A publish that keeps the page already in the entry (compare-and-swap
\* from nil) instead of storing unconditionally.
StoreCache_FirstWins(h) ==
  /\ Running /\ hPc[h] = "store"
  /\ descs' = IF descs[hIdx[h]].cache = 0
              THEN [descs EXCEPT ![hIdx[h]].cache = hCache[h]]
              ELSE descs
  /\ resp' = [resp EXCEPT ![h] = <<"bytes", caches[hCache[h]].data>>]
  /\ hPc' = [hPc EXCEPT ![h] = "done"]
  /\ LocalsEnd(h)
  /\ UNCHANGED <<hPath, hIdx>>
  /\ UNCHANGED <<exampleIndexes, text, wg, caches>>
  /\ UNCHANGED <<segVars, idxVars>>

\* atomic.StorePointer(&idx.cache, cache), then the handler writes the data
\* of the page it built and returns.
StoreCache(h) ==
  /\ Running /\ hPc[h] = "store"
  /\ descs' = [descs EXCEPT ![hIdx[h]].cache = hCache[h]]
  /\ resp' = [resp EXCEPT ![h] = <<"bytes", caches[hCache[h]].data>>]
  /\ hPc' = [hPc EXCEPT ![h] = "done"]
  /\ LocalsEnd(h)
  /\ UNCHANGED <<hPath, hIdx>>
  /\ UNCHANGED <<exampleIndexes, text, wg, caches>>
  /\ UNCHANGED <<segVars, idxVars>>

\* Request h is in the build of a page: it is about to list the directory,
\* to read and render a file, or to execute the template.
Failing(h) ==
  \/ hPc[h] = "load" /\ descs[hIdx[h]].cache = 0
  \/ hPc[h] = "files"

\* A failing file read that is skipped: the loop goes on to the next file.
BuildPanic_SkipFile(h) ==
  /\ Running /\ hPc[h] = "files" /\ MoreFiles(hFi[h], hFis[h])
  /\ hFi' = [hFi EXCEPT ![h] = @ + 1]
  /\ UNCHANGED <<hPc, hPath, hIdx, hCache, hFis, hFiles, resp>>
  /\ UNCHANGED <<segVars, idxVars, sharedVars>>

\* A failing build that publishes and writes what it has so far.
BuildPanic_Publish(h) ==
  /\ Running /\ Failing(h)
  /\ caches' = [caches EXCEPT ![h] =
                  [data |-> renderExample(descs[hIdx[h]], hFiles[h])]]
  /\ descs' = [descs EXCEPT ![hIdx[h]].cache = h]
  /\ resp' = [resp EXCEPT ![h] = <<"bytes", renderExample(descs[hIdx[h]], hFiles[h])>>]
  /\ hPc' = [hPc EXCEPT ![h] = "panicked"]
  /\ LocalsEnd(h)
  /\ UNCHANGED <<hPath, hIdx>>
  /\ UNCHANGED <<exampleIndexes, text, wg>>
  /\ UNCHANGED <<segVars, idxVars>>

\* A failing build that resets the entry of its descriptor.
BuildPanic_Reset(h) ==
  /\ Running /\ Failing(h)
  /\ descs' = [descs EXCEPT ![hIdx[h]].cache = 0]
  /\ hPc' = [hPc EXCEPT ![h] = "panicked"]
  /\ LocalsEnd(h)
  /\ UNCHANGED <<hPath, hIdx, resp>>
  /\ UNCHANGED <<exampleIndexes, text, wg, caches>>
  /\ UNCHANGED <<segVars, idxVars>>

\* The load gave nil and a step of the build fails (ReadDir, mustReadFile,
\* the highlighter or the template): check panics, the panic unwinds
\* handleExample and the closure, and net/http recovers it and drops the
\* connection.
BuildPanic(h) ==
  /\ Running /\ Failing(h)
  /\ hPc' = [hPc EXCEPT ![h] = "panicked"]
  /\ LocalsEnd(h)
  /\ UNCHANGED <<hPath, hIdx, resp>>
  /\ UNCHANGED <<segVars, idxVars, sharedVars>>

Init ==
  /\ SegIdle /\ HandlersIdle
  /\ CatalogInit(ServerRoot)

Next ==
  \/ ListTutorial
  \/ RenderIndexStart
  \/ RenderIndexLoop
  \/ PublishIndexes
  \/ ExecuteIndex
  \/ WgDone
  \/ CatalogPanic
  \/ \E h \in Requests : StartIndex(h)
  \/ \E h \in Requests : ServeIndex(h)
  \/ \E h \in Requests : ServeStatic(h)
  \/ \E h \in Requests : LookupHit(h)
  \/ \E h \in Requests : LookupMiss(h)
  \/ \E h \in Requests : LoadCacheNil(h)
  \/ \E h \in Requests : LoadCacheBuilt(h)
  \/ \E h \in Requests : ParseFile(h)
  \/ \E h \in Requests : RenderExample(h)
  \/ \E h \in Requests : StoreCache(h)
  \/ \E h \in Requests : BuildPanic(h)

Spec == Init /\ [][Next]_vars

\* The catalog goroutine and the requests for the index page alone, over
\* every root listing.
LiveNext ==
  \/ ListTutorial
  \/ RenderIndexStart
  \/ RenderIndexLoop
  \/ PublishIndexes
  \/ ExecuteIndex
  \/ WgDone
  \/ CatalogPanic
  \/ \E h \in Requests : StartIndex(h)
  \/ \E h \in Requests : ServeIndex(h)

\* The Go scheduler runs every goroutine that can run: the catalog goroutine
\* takes its next step unless it panics, and a handler blocked in wg.Wait()
\* goes on once the counter is zero.  Nothing makes a request arrive.
LiveFairness ==
  /\ WF_vars(ListTutorial)
  /\ WF_vars(RenderIndexStart)
  /\ WF_vars(RenderIndexLoop)
  /\ WF_vars(PublishIndexes)
  /\ WF_vars(ExecuteIndex)
  /\ WF_vars(WgDone)
  /\ \A h \in Requests : WF_vars(ServeIndex(h))

SpecLive == IndexInit /\ [][LiveNext]_vars /\ LiveFairness


\* ------------------------------------------------------------------------
\* Properties of the segmenter
\* ------------------------------------------------------------------------

Range(q) == {q[j] : j \in DOMAIN q}

\* The loop of parseSegs has run over every line.
Parsed == segPc \in {"render", "done"}

\* The kind checkLineType gives line i.
Kind(i) == checkLineType(lines[i]).lt

\* The run line i belongs to: the kind of the nearest line at or before i
\* that is not blank, ltNone when there is none.
RECURSIVE RunKind(_)
RunKind(i) ==
  IF i = 0 THEN ltNone
  ELSE IF Kind(i) = ltBlank THEN RunKind(i - 1) ELSE Kind(i)

\* The kind of the nearest line after i that is not blank, ltNone if none.
RECURSIVE NextKind(_)
NextKind(i) ==
  IF i >= Len(lines) THEN ltNone
  ELSE IF Kind(i + 1) = ltBlank THEN NextKind(i + 1) ELSE Kind(i + 1)

\* First line of the run of kind RunKind(i) that line i is in.
RECURSIVE RunStart(_)
RunStart(i) ==
  IF i > 1 /\ RunKind(i - 1) = RunKind(i) THEN RunStart(i - 1) ELSE i

\* Last line of the run of kind RunKind(i) that line i is in.
RECURSIVE RunEnd(_)
RunEnd(i) ==
  IF i < Len(lines) /\ RunKind(i + 1) = RunKind(i) THEN RunEnd(i + 1) ELSE i

Interval(a, b) == [j \in 1..(b - a + 1) |-> a + j - 1]

DocToCode(i) == i < Len(lines) /\ RunKind(i) = ltDoc /\ RunKind(i + 1) = ltCode
CodeToDoc(i) == i < Len(lines) /\ RunKind(i) = ltCode /\ RunKind(i + 1) = ltDoc

\* C6: once parseSegs has run, a Doc run immediately followed by a Code run
\* is held by exactly one segment (its doc-lines are the Doc run, its
\* code-lines the Code run), and a Code run immediately followed by a Doc
\* run is held by two consecutive segments, the Doc run opening the second.
C6_MergeSplit ==
  Parsed =>
    \A i \in 1..Len(lines) :
      /\ DocToCode(i) =>
           \E k \in 1..Len(segs) :
             /\ segs[k].DocsAt = Interval(RunStart(i), i)
             /\ segs[k].CodeAt = Interval(i + 1, RunEnd(i + 1))
             /\ \A n \in 1..Len(segs) :
                  n # k => {i, i + 1} \cap (Range(segs[n].DocsAt)
                                             \cup Range(segs[n].CodeAt)) = {}
      /\ CodeToDoc(i) =>
           \E k \in 1..(Len(segs) - 1) :
             /\ segs[k].CodeAt = Interval(RunStart(i), i)
             /\ segs[k + 1].DocsAt = Interval(i + 1, RunEnd(i + 1))

C6_Witness ==
  /\ segPc = "done"
  /\ \E i, j \in 1..Len(lines) : DocToCode(i) /\ CodeToDoc(j)
  /\ Len(segs) >= 2

\* A blank line whose nearest non-blank neighbours are both of kind k.
BlankBetween(i, k) ==
  /\ Kind(i) = ltBlank
  /\ RunKind(i) = k
  /\ NextKind(i) = k

\* Line i is entry m of the doc-lines of segment k.
InDocs(i) ==
  {km \in {<<k, m>> : k \in 1..Len(segs), m \in 1..Len(lines)} :
     /\ km[2] <= Len(segs[km[1]].DocsAt)
     /\ segs[km[1]].DocsAt[km[2]] = i}

\* Line i is entry m of the code-lines of segment k.
InCode(i) ==
  {km \in {<<k, m>> : k \in 1..Len(segs), m \in 1..Len(lines)} :
     /\ km[2] <= Len(segs[km[1]].CodeAt)
     /\ segs[km[1]].CodeAt[km[2]] = i}

\* C7 (as amended): once parseSegs has run, every blank line between two Doc
\* lines is an empty entry of doc-lines; every blank line between two Code
\* lines is an entry of code-lines holding the line itself with its tabs
\* replaced (white space only, empty only when the line is empty); blank
\* lines before all content are in no segment.
C7_BlankPolicy ==
  Parsed =>
    \A i \in 1..Len(lines) :
      /\ BlankBetween(i, ltDoc) =>
           /\ Cardinality(InDocs(i)) = 1 /\ InCode(i) = {}
           /\ \A km \in InDocs(i) : segs[km[1]].Docs[km[2]] = <<>>
      /\ BlankBetween(i, ltCode) =>
           /\ Cardinality(InCode(i)) = 1 /\ InDocs(i) = {}
           /\ \A km \in InCode(i) :
                /\ segs[km[1]].Code[km[2]] = ReplaceAll(source[i], TAB, FourSpaces)
                /\ TrimSpace(segs[km[1]].Code[km[2]]) = <<>>
      /\ (Kind(i) = ltBlank /\ RunKind(i) = ltNone) =>
           InDocs(i) = {} /\ InCode(i) = {}

\* C7 as claimed: the entry of code-lines is empty.
C7_Original ==
  Parsed =>
    \A i \in 1..Len(lines) :
      /\ BlankBetween(i, ltDoc) =>
           /\ InDocs(i) # {}
           /\ \A km \in InDocs(i) : segs[km[1]].Docs[km[2]] = <<>>
      /\ BlankBetween(i, ltCode) =>
           /\ InCode(i) # {}
           /\ \A km \in InCode(i) : segs[km[1]].Code[km[2]] = <<>>
      /\ (Kind(i) = ltBlank /\ RunKind(i) = ltNone) =>
           InDocs(i) = {} /\ InCode(i) = {}

\* A leading blank, and a blank holding white space between two code lines.
C7_Witness ==
  /\ segPc = "done"
  /\ Len(lines) >= 4
  /\ Kind(1) = ltBlank
  /\ \E i \in 1..Len(lines) :
       /\ BlankBetween(i, ltCode)
       /\ lines[i] # <<>>
       /\ InCode(i) # {}

IsExample == filecontent = Join(ExampleLines, NL)

ExampleCode1 ==
  << <<"x", " ", ":", "=", " ", "1">>, <<>>, <<"y", " ", ":", "=", " ", "2">> >>

ExampleCode2 == << <<"z", " ", ":", "=", " ", "3">> >>

\* C8 (as amended): the eight example lines give exactly two segments, the
\* first with doc-lines ["Title", "", "more"] (the blank line between the
\* two comments is kept) and code-lines ["x := 1", "", "y := 2"], the second
\* with doc-lines ["next doc"] and code-lines ["z := 3"].
C8_Example ==
  (IsExample /\ Parsed) =>
    /\ Len(segs) = 2
    /\ segs[1].Docs = << <<"T", "i", "t", "l", "e">>, <<>>, <<"m", "o", "r", "e">> >>
    /\ segs[1].Code = ExampleCode1
    /\ segs[2].Docs = << <<"n", "e", "x", "t", " ", "d", "o", "c">> >>
    /\ segs[2].Code = ExampleCode2

\* C8 as claimed: the first segment's doc-lines are ["Title", "more"].
C8_Original ==
  (IsExample /\ Parsed) =>
    /\ Len(segs) = 2
    /\ segs[1].Docs = << <<"T", "i", "t", "l", "e">>, <<"m", "o", "r", "e">> >>
    /\ segs[1].Code = ExampleCode1
    /\ segs[2].Docs = << <<"n", "e", "x", "t", " ", "d", "o", "c">> >>
    /\ segs[2].Code = ExampleCode2

C8_Witness == IsExample /\ segPc = "done" /\ Len(segs) = 2

\* The source lines the code-lines of a segment were taken from.
CodeSource(seg) == [m \in 1..Len(seg.CodeAt) |-> source[seg.CodeAt[m]]]

\* Every tab of every line replaced by four spaces.
Normalized(ls) == [m \in 1..Len(ls) |-> ReplaceAll(ls[m], TAB, FourSpaces)]

\* C9 (as amended): once a file is rendered, each code-line of a segment is
\* its source line untrimmed with every tab replaced by four spaces, and
\* splitting the joined code text on newline gives back those lines.
C9_RoundTrip ==
  segPc = "done" =>
    \A k \in 1..Len(segs) :
      /\ Len(segs[k].Code) = Len(segs[k].CodeAt)
      /\ segs[k].Code = Normalized(CodeSource(segs[k]))
      /\ segs[k].Code # <<>> =>
           Split(segs[k].CodeForJs, NL) = Normalized(CodeSource(segs[k]))

\* C9 as claimed: each code-line is the source line verbatim.
C9_Original ==
  segPc = "done" =>
    \A k \in 1..Len(segs) :
      /\ segs[k].Code = CodeSource(segs[k])
      /\ segs[k].Code # <<>> =>
           Split(segs[k].CodeForJs, NL) = CodeSource(segs[k])

\* A rendered segment whose code run has an indented line and a blank line.
C9_Witness ==
  /\ segPc = "done"
  /\ \E k \in 1..Len(segs) :
       /\ Len(segs[k].Code) >= 3
       /\ \E m \in 1..Len(segs[k].Code) : segs[k].Code[m] = <<>>
       /\ \E m \in 1..Len(segs[k].Code) :
            /\ segs[k].Code[m] # TrimSpace(segs[k].Code[m])
            /\ TrimSpace(segs[k].Code[m]) # <<>>

\* The trimmed text of line i starts with the heading marker.
IsHeading(i) ==
  LET t == TrimSpace(lines[i]) IN t # <<>> /\ t[1] = "#"

\* The number of heading markers a text starts with.
RECURSIVE Marks(_)
Marks(t) == IF t # <<>> /\ t[1] = "#" THEN 1 + Marks(Tail(t)) ELSE 0

\* C14 (as amended): once parseSegs has run, every line whose trimmed text
\* starts with '#' is one entry of the doc-lines of one segment, and the
\* entry is the trimmed text with exactly two '#' prepended: the heading is
\* demoted by two levels.
C14_Heading ==
  Parsed =>
    \A i \in 1..Len(lines) :
      IsHeading(i) =>
        /\ Cardinality(InDocs(i)) = 1 /\ InCode(i) = {}
        /\ \A km \in InDocs(i) :
             LET doc == segs[km[1]].Docs[km[2]] IN
               /\ doc = <<"#", "#">> \o TrimSpace(lines[i])
               /\ Marks(doc) = Marks(TrimSpace(lines[i])) + 2

\* C14 as claimed: the entry is the trimmed text with exactly one '#'
\* prepended.
C14_Original ==
  Parsed =>
    \A i \in 1..Len(lines) :
      IsHeading(i) =>
        /\ InDocs(i) # {}
        /\ \A km \in InDocs(i) :
             LET doc == segs[km[1]].Docs[km[2]] IN
               /\ doc = <<"#">> \o TrimSpace(lines[i])
               /\ Marks(doc) = Marks(TrimSpace(lines[i])) + 1

\* An indented heading after a code line has been classified.
C14_Witness ==
  /\ segPc = "done"
  /\ \E i \in 2..Len(lines) :
       /\ IsHeading(i) /\ lines[i] # TrimSpace(lines[i])
       /\ Kind(i - 1) = ltCode
       /\ InDocs(i) # {}

\* The path of the file ends in .gop or .go.
RunnableKind ==
  \/ HasSuffix(sourcePath, <<".", "g", "o", "p">>)
  \/ HasSuffix(sourcePath, <<".", "g", "o">>)

\* C15 (as amended): once a file is rendered, every segment with code-lines
\* carries its code-lines joined with newlines whatever the kind of the
\* file, and a segment without code-lines carries none; what is retained
\* only for a file of the runnable kind (.gop or .go) is the content of the
\* file, the second result, which is empty for a file of any other kind.
C15_RawCode ==
  segPc = "done" =>
    /\ \A k \in 1..Len(segs) :
         segs[k].CodeForJs = IF segs[k].Code # <<>> THEN Join(segs[k].Code, NL)
                             ELSE <<>>
    /\ RunnableKind => goCode = filecontent
    /\ ~RunnableKind => goCode = <<>>

\* C15 as claimed: for a file that is not of the runnable kind the raw code
\* text of every rendered segment is empty.
C15_Original ==
  (segPc = "done" /\ ~RunnableKind) =>
    \A k \in 1..Len(segs) : segs[k].CodeForJs = <<>>

\* A rendered shell file: a segment has code-lines and their joined text,
\* and the content of the file is not retained.
C15_Witness ==
  /\ segPc = "done" /\ ~RunnableKind
  /\ filecontent # <<>> /\ goCode = <<>>
  /\ \E k \in 1..Len(segs) :
       Len(segs[k].Code) >= 2 /\ segs[k].CodeForJs # <<>>

\* The indexes of q go up by one from each entry to the next.
Contiguous(q) == \A m \in 1..(Len(q) - 1) : q[m + 1] = q[m] + 1

\* The source lines of a segment, doc-lines first.
LinesOf(seg) == seg.DocsAt \o seg.CodeAt

\* C18: in every state of the segmenter, the doc-lines of each segment come
\* from one contiguous range of source lines, its code-lines from one
\* contiguous range, every doc-line of a segment comes before every
\* code-line of it, and each segment ends before the next one starts.
C18_Contiguity ==
  /\ \A k \in 1..Len(segs) :
       /\ Len(segs[k].Docs) = Len(segs[k].DocsAt)
       /\ Len(segs[k].Code) = Len(segs[k].CodeAt)
       /\ Contiguous(segs[k].DocsAt)
       /\ Contiguous(segs[k].CodeAt)
       /\ (segs[k].DocsAt # <<>> /\ segs[k].CodeAt # <<>>) =>
            segs[k].DocsAt[Len(segs[k].DocsAt)] < segs[k].CodeAt[1]
       /\ \A m \in 1..Len(LinesOf(segs[k])) :
            LinesOf(segs[k])[m] \in 1..Len(lines)
  /\ \A k \in 1..(Len(segs) - 1) :
       /\ LinesOf(segs[k]) # <<>> /\ LinesOf(segs[k + 1]) # <<>>
       /\ LinesOf(segs[k])[Len(LinesOf(segs[k]))] < LinesOf(segs[k + 1])[1]

\* Two segments, the first with several doc-lines and several code-lines.
C18_Witness ==
  /\ segPc = "done"
  /\ Len(segs) >= 2
  /\ Len(segs[1].Docs) >= 2 /\ Len(segs[1].Code) >= 2

\* The number of blank lines before the first line that is not blank.
LeadingBlanks ==
  Cardinality({i \in 1..Len(lines) : \A j \in 1..i : Kind(j) = ltBlank})

\* The source lines of every segment, in the order of the segments.
RECURSIVE Placed(_)
Placed(sg) == IF sg = <<>> THEN <<>> ELSE LinesOf(Head(sg)) \o Placed(Tail(sg))

\* The number of doc and code entries of the segments.
RECURSIVE TotalEntries(_)
TotalEntries(sg) ==
  IF sg = <<>> THEN 0
  ELSE Len(Head(sg).Docs) + Len(Head(sg).Code) + TotalEntries(Tail(sg))

\* C19: once parseSegs has run, the source lines after the leading blank
\* lines are placed one entry each, in source order, each in the doc-lines
\* or the code-lines of exactly one segment; the leading blank lines are in
\* no segment; the number of entries is the number of lines minus the
\* number of leading blank lines; and every segment has an entry.
C19_NoLoss ==
  Parsed =>
    /\ Len(lines) = Len(Split(filecontent, NL))
    /\ Placed(segs) = Interval(LeadingBlanks + 1, Len(lines))
    /\ TotalEntries(segs) = Len(lines) - LeadingBlanks
    /\ \A i \in 1..Len(lines) :
         Cardinality(InDocs(i)) + Cardinality(InCode(i)) =
           IF i > LeadingBlanks THEN 1 ELSE 0
    /\ \A k \in 1..Len(segs) : Len(segs[k].Docs) + Len(segs[k].Code) >= 1

\* Leading blank lines, then two segments with a blank line inside one.
C19_Witness ==
  /\ segPc = "done"
  /\ LeadingBlanks >= 1
  /\ Len(segs) >= 2
  /\ \E i \in 1..Len(lines) : i > LeadingBlanks /\ Kind(i) = ltBlank
  /\ TotalEntries(segs) >= 3

\* ------------------------------------------------------------------------
\* Properties of the catalog
\* ------------------------------------------------------------------------

\* The loop of renderIndex has run over every name.
Linked == bPc \in {"execute", "wgdone", "done"}

\* C10: once renderIndex has linked a list of N names, examples holds N
\* distinct descriptors, one per name in order; the first has no Prev, the
\* last has no Next, and each descriptor after the first has its predecessor
\* as Prev and is the Next of its predecessor.
C10_Linkage ==
  Linked =>
    LET N == Len(tutorial) IN
      /\ Len(examples) = N
      /\ \A i \in 1..N :
           /\ examples[i] \in 1..Len(descs)
           /\ descs[examples[i]].Name = tutorial[i]
           /\ \A j \in 1..N : examples[i] = examples[j] => i = j
      /\ N > 0 => /\ descs[examples[1]].Prev = 0
                  /\ descs[examples[N]].Next = 0
      /\ \A i \in 2..N :
           /\ descs[examples[i]].Prev = examples[i - 1]
           /\ descs[examples[i - 1]].Next = examples[i]

C10_Witness == bPc = "done" /\ Len(tutorial) >= 3 /\ Len(examples) >= 3

\* listTutorial has returned its names.
Listed == bPc \in {"parse", "loop", "execute", "wgdone", "done"}

\* Two decimal digits, the separator, then a non-empty title.
TwoDigitName(name) ==
  /\ Len(name) > 3
  /\ name[1] \in Digits /\ name[2] \in Digits
  /\ name[3] = "-"

IsConventionDir(fi) == fi.isDir /\ TwoDigitName(fi.name)

\* C11 as claimed: once listTutorial has returned, its names are exactly the
\* names of the subdirectories made of two decimal digits, the separator
\* '-' and a non-empty title, in listing order.
C11_Original ==
  Listed =>
    LET kept == SelectSeq(dirEntries, IsConventionDir)
    IN tutorial = [k \in 1..Len(kept) |-> kept[k].name]

\* The lower-case form of one character.
LowerOf(c) ==
  IF \E k \in 1..26 : Upper[k] = c
  THEN Lower[CHOOSE k \in 1..26 : Upper[k] = c]
  ELSE c

\* The title of a catalogued name: the name without its ordinal prefix.
TitleOf(name) == SubSeq(name, 4, Len(name))

\* C12 (as amended): once renderIndex has linked the names, the URL path of
\* each descriptor is '/' followed by the title with every upper-case letter
\* lowered and every other character, the separator '-' included, kept; its
\* display title is the title with every '-' replaced by a space and every
\* other character kept; "05-Channels" gives "/channels" and "Channels".
C12_PathTitle ==
  Linked =>
    \A i \in 1..Len(tutorial) :
      LET d == descs[examples[i]]
          title == TitleOf(tutorial[i])
      IN /\ Len(d.Path) = Len(title) + 1
         /\ d.Path[1] = "/"
         /\ \A j \in 1..Len(title) : d.Path[j + 1] = LowerOf(title[j])
         /\ Len(d.Title) = Len(title)
         /\ \A j \in 1..Len(title) :
              d.Title[j] = IF title[j] = "-" THEN " " ELSE title[j]
         /\ tutorial[i] = Str_05_Channels =>
              /\ d.Path = <<"/", "c", "h", "a", "n", "n", "e", "l", "s">>
              /\ d.Title = <<"C", "h", "a", "n", "n", "e", "l", "s">>

\* C12 as claimed, for the catalogued names that follow the two-digit
\* convention: the path is '/' followed by the lower-case title in which
\* every '-' has been replaced by a space.
C12_Original ==
  Linked =>
    \A i \in 1..Len(tutorial) :
      LET d == descs[examples[i]]
          title == TitleOf(tutorial[i])
      IN TwoDigitName(tutorial[i]) =>
         /\ Len(d.Path) = Len(title) + 1
         /\ d.Path[1] = "/"
         /\ \A j \in 1..Len(title) :
              d.Path[j + 1] = IF title[j] = "-" THEN " " ELSE LowerOf(title[j])

\* The catalog holds the documented example and a name whose title has a
\* separator and an upper-case letter.
C12_Witness ==
  /\ bPc = "done"
  /\ \E i, j \in 1..Len(tutorial) :
       /\ tutorial[i] = Str_05_Channels
       /\ tutorial[j] = <<"0", "8", "-", "H", "-", "i">>
       /\ descs[examples[j]].Path = <<"/", "h", "-", "i">>

\* C20 as claimed: once renderIndex has linked the names, looking up the
\* path of each descriptor of examples (and so of each Prev and Next) in the
\* map gives that descriptor, no two descriptors of examples have the same
\* path, and the map has as many keys as examples has descriptors.
C20_Original ==
  Linked =>
    /\ \A i \in 1..Len(examples) :
         /\ descs[examples[i]].Path \in DOMAIN indexes
         /\ indexes[descs[examples[i]].Path] = examples[i]
    /\ \A i \in 1..Len(examples) : \A j \in 1..Len(examples) :
         descs[examples[i]].Path = descs[examples[j]].Path => i = j
    /\ Cardinality(DOMAIN indexes) = Len(examples)
    /\ bPc # "loop" => exampleIndexes = indexes

\* ------------------------------------------------------------------------
\* Properties of the server
\* ------------------------------------------------------------------------

\* Every file of each example directory of the server, parsed and rendered.
CompleteFiles ==
  [dir \in {Str_01_Ab, Str_02_C} |->
     [f \in 1..Len(DirFiles(dir)) |-> ParseExampleFile(dir, DirFiles(dir)[f])]]

\* The page of descriptor k assembled from every file of its directory.
CompletePage(k) == renderExample(descs[k], CompleteFiles[descs[k].Name])

\* Request h has returned after writing the page of a descriptor.
PageWritten(h) ==
  hPc[h] = "done" /\ hIdx[h] # 0 /\ resp[h] # <<>> /\ resp[h][1] = "bytes"

\* C1: in every reachable state a cache entry is nil or points to a page
\* assembled from every file of its directory, the page a handler is about to
\* publish is such a page, and every page a handler wrote is such a page.
C1_AtomicPublish ==
  /\ \A k \in 1..Len(descs) :
       descs[k].cache # 0 =>
         /\ caches[descs[k].cache] # <<>>
         /\ caches[descs[k].cache].data = CompletePage(k)
  /\ \A h \in Requests :
       /\ hPc[h] = "store" =>
            hCache[h] # 0 /\ caches[hCache[h]].data = CompletePage(hIdx[h])
       /\ PageWritten(h) => resp[h][2] = CompletePage(hIdx[h])

\* A handler holds a half-built page of a descriptor while the entry of the
\* descriptor is built and another handler has served it.
C1_Witness ==
  \E h1, h2 \in Requests :
    /\ hPc[h1] = "files" /\ hFiles[h1] # <<>> /\ MoreFiles(hFi[h1], hFis[h1])
    /\ hIdx[h2] = hIdx[h1] /\ PageWritten(h2)
    /\ descs[hIdx[h1]].cache # 0

\* The paths of the catalog once it is built.
FinishedPaths ==
  LET names == listTutorial(dirEntries)
  IN {NewIndex(names[i]).Path : i \in 1..Len(names)}

\* Request h reads exampleIndexes in this step.
ReadsCatalog(h) ==
  /\ hPc[h] = "idle"
  /\ hPc'[h] \in {"load", "done"}
  /\ hPath'[h] \in ExamplePaths

\* C2 as claimed: every read of the catalog by a handler comes after
\* wg.Done(), and a request for a path of the finished catalog is never
\* answered with the not-found page.
C2_Original ==
  [][\A h \in Requests :
       ReadsCatalog(h) =>
         /\ wg = 0
         /\ hPath'[h] \in FinishedPaths => hPc'[h] = "load"]_vars

\* C3: all pages written for one descriptor are byte-identical, whichever
\* request built them, and are the payload the entry of the descriptor holds.
C3_Idempotent ==
  \A h1 \in Requests :
    PageWritten(h1) =>
      /\ descs[hIdx[h1]].cache # 0
      /\ resp[h1][2] = caches[descs[hIdx[h1]].cache].data
      /\ \A h2 \in Requests :
           (PageWritten(h2) /\ hIdx[h2] = hIdx[h1]) => resp[h2] = resp[h1]

\* Two requests built the same page redundantly and both have answered.
C3_Witness ==
  \E h1, h2 \in Requests :
    /\ h1 # h2 /\ hIdx[h1] = hIdx[h2]
    /\ PageWritten(h1) /\ PageWritten(h2)
    /\ caches[h1] # <<>> /\ caches[h2] # <<>>

\* C4: a step in which the build of a request fails changes no cache entry,
\* allocates no page and leaves the request's response empty; and a request
\* that loads a nil entry goes on to run the build.
C4_FailedBuild ==
  [][\A h \in Requests :
       /\ (hPc[h] # "panicked" /\ hPc'[h] = "panicked") =>
            /\ descs' = descs
            /\ caches' = caches
            /\ resp[h] = <<>> /\ resp'[h] = <<>>
       /\ (hPc[h] = "load" /\ hPc'[h] \notin {"load", "panicked"}) =>
            (descs[hIdx[h]].cache = 0 <=> hPc'[h] = "files")]_vars

\* A build failed, the entry is still nil and another request is building
\* the same page.
C4_Witness ==
  \E h1, h2 \in Requests :
    /\ hPc[h1] = "panicked" /\ resp[h1] = <<>>
    /\ hIdx[h2] = hIdx[h1] /\ hPc[h2] = "files"
    /\ descs[hIdx[h1]].cache = 0

\* C5: in every step, an entry that holds a page still holds a page with the
\* same payload afterwards; the only change of state of an entry is from nil
\* to a page.
C5_OneWay ==
  [][\A k \in 1..Len(descs) :
       descs[k].cache # 0 =>
         /\ k <= Len(descs')
         /\ descs'[k].cache # 0
         /\ caches'[descs'[k].cache].data = caches[descs[k].cache].data]_vars

\* Two requests have stored a page in the same entry.
C5_Witness ==
  \E h1, h2 \in Requests :
    /\ h1 # h2 /\ hIdx[h1] = hIdx[h2]
    /\ hPc[h1] = "done" /\ hPc[h2] = "done"
    /\ caches[h1] # <<>> /\ caches[h2] # <<>>
    /\ descs[hIdx[h1]].cache = h2

\* No request is in the build of the page of descriptor k or about to
\* publish it.
NoBuilders(k) ==
  \A h \in Requests : hIdx[h] = k => hPc[h] \notin {"files", "store"}

\* C16: in every step, a request whose load finds the entry built returns
\* the page the entry holds and allocates none; a request enters the build
\* only from a load that found the entry nil; and once the entry of a
\* descriptor is built and no request is building its page, the entry stays
\* built and no request is building its page.
C16_BuiltNoBuild ==
  [][/\ \A h \in Requests :
          (hPc[h] = "load" /\ hPc'[h] # "load" /\ descs[hIdx[h]].cache # 0) =>
            /\ hPc'[h] = "done"
            /\ resp'[h] = <<"bytes", caches[descs[hIdx[h]].cache].data>>
            /\ caches' = caches /\ descs' = descs
     /\ \A h \in Requests :
          (hPc[h] # "files" /\ hPc'[h] = "files") =>
            hPc[h] = "load" /\ descs[hIdx[h]].cache = 0
     /\ \A k \in 1..Len(descs) :
          (descs[k].cache # 0 /\ NoBuilders(k)) =>
            (descs'[k].cache # 0 /\ NoBuilders(k)')]_vars

\* The entry is built, no request is building its page, one request got the
\* page without ever building and another is about to load the entry.
C16_Witness ==
  \E h1, h2 \in Requests :
    /\ h1 # h2 /\ hIdx[h1] = hIdx[h2]
    /\ PageWritten(h1) /\ caches[h1] = <<>>
    /\ hPc[h2] = "load"
    /\ descs[hIdx[h1]].cache # 0 /\ NoBuilders(hIdx[h1])

\* C17: in every step, a publish leaves in the entry the page of the request
\* that publishes, whatever the entry held; nothing but a publish changes an
\* entry; and a request whose load finds the entry built writes the page
\* the entry holds, the one of the last publish.
C17_LastPublish ==
  [][\A k \in 1..Len(descs) :
       /\ \A h \in Requests :
            (hIdx[h] = k /\ hPc[h] = "store" /\ hPc'[h] = "done") =>
              /\ descs'[k].cache = h
              /\ caches'[h] # <<>>
              /\ resp'[h] = <<"bytes", caches'[h].data>>
       /\ descs'[k].cache # descs[k].cache =>
            \E h \in Requests :
              hIdx[h] = k /\ hPc[h] = "store" /\ hPc'[h] = "done"
       /\ \A h \in Requests :
            (hIdx[h] = k /\ hPc[h] = "load" /\ hPc'[h] = "done") =>
              /\ descs[k].cache # 0
              /\ resp'[h] = <<"bytes", caches[descs'[k].cache].data>>]_vars

\* Two requests published a page of one descriptor, the entry holds the
\* page of the second, and a third request that never built was answered
\* with it.
C17_Witness ==
  \E h1, h2, h3 \in Requests :
    /\ h1 # h2 /\ h3 \notin {h1, h2}
    /\ hIdx[h1] = hIdx[h2] /\ hIdx[h3] = hIdx[h1]
    /\ hPc[h1] = "done" /\ hPc[h2] = "done"
    /\ caches[h1] # <<>> /\ caches[h2] # <<>>
    /\ descs[hIdx[h1]].cache = h2
    /\ PageWritten(h3) /\ caches[h3] = <<>>
    /\ resp[h3] = <<"bytes", caches[h2].data>>

\* The index page with one item per name of the root listing.
CompleteIndex ==
  /\ Len(examples) = Len(listTutorial(dirEntries))
  /\ \A i \in 1..Len(examples) : examples[i] # 0
  /\ text = ExecuteIndexTmpl(descs, examples)

\* C13: a request for "/" is answered only in a state where the goroutine
\* has finished (the index is rendered and wg.Done() was called), and what
\* it writes is the complete index page; once the goroutine has finished, a
\* waiting request can always go on; and, the goroutine not panicking, every
\* waiting request is eventually answered.
C13_IndexAfterBuild ==
  /\ [][\A h \in Requests :
         (hPc[h] = "wait" /\ hPc'[h] = "done") =>
           /\ bPc = "done" /\ wg = 0
           /\ CompleteIndex
           /\ resp'[h] = <<"bytes", text>>]_vars
  /\ [](\A h \in Requests :
          (bPc = "done" /\ hPc[h] = "wait") => ENABLED ServeIndex(h))
  /\ \A h \in Requests :
       (hPc[h] = "wait") ~> (hPc[h] = "done" \/ bPc = "panic")

\* One request was answered with the index page and another, arrived after
\* the goroutine finished, is about to be.
C13_Witness ==
  \E h1, h2 \in Requests :
    /\ h1 # h2
    /\ hPc[h1] = "done" /\ hPath[h1] = <<"/">>
    /\ resp[h1] = <<"bytes", text>> /\ text # <<>>
    /\ hPc[h2] = "wait" /\ bPc = "done"

=============================================================================
